---------------------------- MODULE Spec2Model ----------------------------
(***************************************************************************)
(* A model of gokitty's URL router, package mux (src/pkg/mux/router.go):   *)
(* the route table filled by Router.HandleFunc, the dispatcher             *)
(* Router.ServeHTTP with Router.match, and the accessor Var.               *)
(*                                                                         *)
(* A Go string is a sequence of one-character strings, so that             *)
(* strings.Split, slicing and url.QueryUnescape are computed on the text   *)
(* as the code computes them.  A Go map[string]string is a function from   *)
(* names to values; a panic (index out of range) is an outcome of its own. *)
(***************************************************************************)
EXTENDS Naturals, Sequences, FiniteSets, TLC

VARIABLES
    routes,           \* Router.routes: the route table, in registration order
    NotFoundHandler,  \* Router.NotFoundHandler (NilHandler when not configured)
    aborted,          \* TRUE once a HandleFunc call has panicked
    out,              \* the last completed call: its inputs and what it did
    pc,               \* per in-flight ServeHTTP call: where it stands
    rq,               \* per in-flight call: the request it was given
    segs,             \* per in-flight call: its local `segments`
    idx,              \* per in-flight call: the index of the route tried next
    hit,              \* per in-flight call: the match found (route, map slot)
    heap,             \* the maps made by match, by allocation slot
    obs,              \* per in-flight call: the handler invocations it made
    store,            \* the example service's Store.vals: key to value
    reply             \* the example service's last request and its response

vars == <<routes, NotFoundHandler, aborted, out, pc, rq, segs, idx, hit, heap, obs,
          store, reply>>

seqVars == <<routes, NotFoundHandler, aborted, out>>

concVars == <<pc, rq, segs, idx, hit, heap, obs>>

appVars == <<store, reply>>

-----------------------------------------------------------------------------
(* Bounds and input sets.                                                  *)

\* The most routes the table holds.
MaxRoutes == 2

\* The number of concurrently served requests (workers of the http server).
NumProcs == 2

Procs == 1..NumProcs

Methods == {"GET", "PUT"}

\* Paths given to Router.HandleFunc:
\* "", "/", "/a", "/a/", "/:k", "//", "/:k/:j".
Patterns ==
    { <<>>,
      <<"/">>,
      <<"/", "a">>,
      <<"/", "a", "/">>,
      <<"/", ":", "k">>,
      <<"/", "/">>,
      <<"/", ":", "k", "/", ":", "j">> }

\* Escaped paths of the requests served (req.URL.EscapedPath()):
\* "", "/", "//", "/a", "/a/", "/b", "/a/b", "/a+b", "/:k".
RequestPaths ==
    { <<>>,
      <<"/">>,
      <<"/", "/">>,
      <<"/", "a">>,
      <<"/", "a", "/">>,
      <<"/", "b">>,
      <<"/", "a", "/", "b">>,
      <<"/", "a", "+", "b">>,
      <<"/", ":", "k">> }

\* The keys a handler looks up with Var: "k", "j", "" and "x".
LookupKeys == { <<"k">>, <<"j">>, <<>>, <<"x">> }

-----------------------------------------------------------------------------
(* Values.                                                                 *)

\* A func(http.ResponseWriter, *http.Request) value.  The function given to
\* the n-th registration is [kind |-> "route", id |-> n].
NilHandler == [kind |-> "nil", id |-> 0]

UserNotFound == [kind |-> "notFound", id |-> 0]

PageNotFoundFn == [kind |-> "pageNotFound", id |-> 0]

RouteHandler(n) == [kind |-> "route", id |-> n]

\* The request context's entry under ctxValsKey: absent, or a map.
NoVals == [has |-> FALSE, vals |-> <<>>]

WithVals(m) == [has |-> TRUE, vals |-> m]

\* Contexts a request arrives with: none, or bindings {"k": "old"} attached
\* by an outer router.
OuterVals == [n \in {<<"k">>} |-> <<"o", "l", "d">>]

Contexts == {NoVals, WithVals(OuterVals)}

Requests == [method : Methods, path : RequestPaths, ctx : Contexts]

\* No request.
IdleRequest == [method |-> "", path |-> <<>>, ctx |-> NoVals]

\* What package mux itself wrote to the http.ResponseWriter.
NoResponse == [status |-> 0, body |-> ""]

\* The body written by pageNotFound; <U+2013> stands for the en dash.
DefaultBody == "404.4 <U+2013> No handler configured."

DefaultResponse == [status |-> 404, body |-> DefaultBody]

-----------------------------------------------------------------------------
(* Strings.                                                                *)

\* The index of the first sep in s at or after i, or 0 when there is none.
RECURSIVE IndexFrom(_, _, _)
IndexFrom(s, sep, i) ==
    IF i > Len(s) THEN 0
    ELSE IF s[i] = sep THEN i
    ELSE IndexFrom(s, sep, i + 1)

\* strings.Split(s, sep) for a one-character sep: always at least one part.
RECURSIVE Split(_, _)
Split(s, sep) ==
    LET i == IndexFrom(s, sep, 1)
    IN  IF i = 0 THEN <<s>>
        ELSE <<SubSeq(s, 1, i - 1)>> \o Split(SubSeq(s, i + 1, Len(s)), sep)

HexDigits ==
    {"0", "1", "2", "3", "4", "5", "6", "7", "8", "9",
     "a", "b", "c", "d", "e", "f", "A", "B", "C", "D", "E", "F"}

ishex(c) == c \in HexDigits

\* The character with the byte value written by the hex digits h1 h2.
ByteChar(h1, h2) ==
    CASE h1 = "2" /\ h2 = "0" -> " "
      [] h1 = "2" /\ h2 = "5" -> "%"
      [] h1 = "2" /\ h2 \in {"B", "b"} -> "+"
      [] h1 = "2" /\ h2 \in {"F", "f"} -> "/"
      [] h1 = "3" /\ h2 \in {"A", "a"} -> ":"
      [] h1 = "6" /\ h2 = "1" -> "a"
      [] h1 = "6" /\ h2 = "2" -> "b"
      [] OTHER -> "x" \o h1 \o h2

\* Whether every '%' of s from i on is followed by two hex digits.
RECURSIVE WellEscaped(_, _)
WellEscaped(s, i) ==
    IF i > Len(s) THEN TRUE
    ELSE IF s[i] = "%"
         THEN IF i + 2 > Len(s) \/ ~ishex(s[i + 1]) \/ ~ishex(s[i + 2])
              THEN FALSE
              ELSE WellEscaped(s, i + 3)
         ELSE WellEscaped(s, i + 1)

RECURSIVE UnescapeFrom(_, _)
UnescapeFrom(s, i) ==
    IF i > Len(s) THEN <<>>
    ELSE IF s[i] = "%"
         THEN <<ByteChar(s[i + 1], s[i + 2])>> \o UnescapeFrom(s, i + 3)
         ELSE IF s[i] = "+"
              THEN <<" ">> \o UnescapeFrom(s, i + 1)
              ELSE <<s[i]>> \o UnescapeFrom(s, i + 1)

\* url.QueryUnescape(s): %XX becomes the byte XX and '+' becomes ' '; a '%'
\* not followed by two hex digits gives ("", error).
QueryUnescape(s) ==
    IF WellEscaped(s, 1)
    THEN [value |-> UnescapeFrom(s, 1), err |-> FALSE]
    ELSE [value |-> <<>>, err |-> TRUE]

-----------------------------------------------------------------------------
(* Var.                                                                    *)

\* A variant that reports found whenever the context carries a map, with the
\* map's zero value for a key it does not hold.
VarOfAnyKey(r, key) ==
    IF ~r.ctx.has THEN <<(<<>>), FALSE>>
    ELSE <<(IF key \in DOMAIN r.ctx.vals THEN r.ctx.vals[key] ELSE <<>>), TRUE>>

\* Var(r, key): the value bound to key in the request's context, and
\* whether there is one.
Var(r, key) ==
    IF ~r.ctx.has THEN <<(<<>>), FALSE>>
    ELSE IF key \in DOMAIN r.ctx.vals
         THEN <<r.ctx.vals[key], TRUE>>
         ELSE <<(<<>>), FALSE>>

-----------------------------------------------------------------------------
(* Router.HandleFunc.                                                      *)

\* The path with its last character removed when that is '/'.
TrimPattern(path) ==
    IF path[Len(path)] = "/" THEN SubSeq(path, 1, Len(path) - 1) ELSE path

\* A variant that puts no '/' in front.
RootPatternAsIs(path) == path

\* The trimmed path with '/' put in front unless it starts with one.  The
\* code reads path[0], so the path is not empty here.
RootPattern(path) ==
    IF path[1] # "/" THEN <<"/">> \o path ELSE path

\* segments := strings.Split(path, "/")[1:]
PatternSegments(path) == Tail(Split(path, "/"))

\* The route appended for a cleaned path.
NewRoute(method, path, handler) ==
    [method |-> method, segments |-> PatternSegments(path), handler |-> handler]

\* A variant without the check for the empty path: the index
\* path[len(path)-1] is then out of range for "".
HandleFuncResultUnchecked(path) ==
    IF Len(path) = 0 \/ Len(TrimPattern(path)) = 0 THEN "panic" ELSE "added"

\* What a HandleFunc call does: "ignored" (empty path), "panic" (the trimmed
\* path is empty and path[0] is out of range) or "added".
HandleFuncResult(path) ==
    IF Len(path) = 0 THEN "ignored"
    ELSE IF Len(TrimPattern(path)) = 0 THEN "panic"
    ELSE "added"

\* A variant that puts the new route in front of the others.
AddRouteFront(rs, route) == <<route>> \o rs

\* r.routes = append(r.routes, route)
AddRoute(rs, route) == Append(rs, route)

\* The function value passed to a registration: a new one for each call.
NextHandler(rs) == RouteHandler(Len(rs) + 1)

HandleFunc(method, path, handler) ==
    /\ ~aborted
    /\ \A p \in Procs : pc[p] = "idle"
    /\ LET res == HandleFuncResult(path)
       IN  /\ res = "added" => Len(routes) < MaxRoutes
           /\ routes' =
                 IF res = "added"
                 THEN AddRoute(routes, NewRoute(method, RootPattern(TrimPattern(path)), handler))
                 ELSE routes
           /\ aborted' = (res = "panic")
           /\ out' = [op |-> "HandleFunc", method |-> method, path |-> path,
                      ctx |-> NoVals, handler |-> handler, calls |-> <<>>,
                      panic |-> (res = "panic"), resp |-> NoResponse,
                      after |-> IdleRequest, lookups |-> <<>>]
    /\ UNCHANGED <<NotFoundHandler, concVars, appVars>>

-----------------------------------------------------------------------------
(* Router.match.                                                           *)

\* A variant that leaves a name that is already in the map as it is.
MapPutFirst(vals, name, value) ==
    [n \in DOMAIN vals \cup {name} |-> IF n \in DOMAIN vals THEN vals[n] ELSE value]

\* vals[name] = value
MapPut(vals, name, value) ==
    [n \in DOMAIN vals \cup {name} |-> IF n = name THEN value ELSE vals[n]]

\* A variant that lets a request longer than the route through.
RejectsShorter(route, method, segments) ==
    method # route.method \/ Len(segments) < Len(route.segments)

\* The early reject: method and number of segments.
Rejects(route, method, segments) ==
    method # route.method \/ Len(segments) # Len(route.segments)

\* A variant that keeps the ':' in the name.
ParamNameWhole(segment) == segment

\* segment[1:], the name of a parameter segment.
ParamName(segment) == Tail(segment)

\* A variant that always reads the request's first segment.
ParamValueFirst(segments, i) == QueryUnescape(segments[1]).value

\* value, _ := url.QueryUnescape(segments[i])
ParamValue(segments, i) == QueryUnescape(segments[i]).value

\* A variant that decodes the request's segment before it compares it.
LiteralDiffersDecoded(segment, text) == QueryUnescape(text).value # segment

\* segments[i] != segment, for a literal segment of the route and the
\* request's segment at its position: a comparison of the bytes.
LiteralDiffers(segment, text) == text # segment

\* The loop over route.segments from position i with the map built so far.
\* segment[0] of an empty segment is out of range: a panic.
RECURSIVE matchFrom(_, _, _, _)
matchFrom(rsegs, segments, i, vals) ==
    IF i > Len(rsegs) THEN [panic |-> FALSE, found |-> TRUE, vals |-> vals]
    ELSE LET segment == rsegs[i]
         IN  IF Len(segment) = 0
             THEN [panic |-> TRUE, found |-> FALSE, vals |-> <<>>]
             ELSE IF segment[1] = ":"
             THEN matchFrom(rsegs, segments, i + 1,
                            MapPut(vals, ParamName(segment), ParamValue(segments, i)))
             ELSE IF LiteralDiffers(segment, segments[i])
             THEN [panic |-> FALSE, found |-> FALSE, vals |-> <<>>]
             ELSE matchFrom(rsegs, segments, i + 1, vals)

\* A variant that remembers, for a route that matched, the map of that
\* match, and answers with it when the route is tried again while it is
\* remembered.
matchCached(route, method, segments) ==
    IF \E q \in Procs : hit[q].route > 0 /\ routes[hit[q].route] = route
    THEN LET q == CHOOSE q \in Procs : hit[q].route > 0 /\ routes[hit[q].route] = route
         IN  [panic |-> FALSE, found |-> TRUE, vals |-> heap[hit[q].slot]]
    ELSE IF Rejects(route, method, segments)
    THEN [panic |-> FALSE, found |-> FALSE, vals |-> <<>>]
    ELSE matchFrom(route.segments, segments, 1, <<>>)

match(route, method, segments) ==
    IF Rejects(route, method, segments)
    THEN [panic |-> FALSE, found |-> FALSE, vals |-> <<>>]
    ELSE matchFrom(route.segments, segments, 1, <<>>)

-----------------------------------------------------------------------------
(* Router.ServeHTTP.                                                       *)

\* A variant that leaves the path as it came.
CleanPathKeep(path) == path

\* The escaped path without its last character when that is '/'.
CleanPath(path) ==
    IF Len(path) > 0 /\ path[Len(path)] = "/"
    THEN SubSeq(path, 1, Len(path) - 1)
    ELSE path

\* A variant that decodes the whole path before it splits it.
RequestSegmentsDecoded(path) ==
    Tail(Split(QueryUnescape(CleanPath(path)).value, "/"))

\* A variant that keeps the text before the first '/'.
RequestSegmentsAll(path) == Split(CleanPath(path), "/")

\* segments := strings.Split(path, "/")[1:]
RequestSegments(path) == Tail(Split(CleanPath(path), "/"))

\* A variant of the loop that goes on after a match: the last route that
\* matches is the one dispatched.
RECURSIVE ScanKeep(_, _, _, _, _)
ScanKeep(rs, i, method, segments, best) ==
    IF i > Len(rs) THEN best
    ELSE LET m == match(rs[i], method, segments)
         IN  IF m.panic THEN [kind |-> "panic", route |-> i, vals |-> <<>>]
             ELSE IF m.found
             THEN ScanKeep(rs, i + 1, method, segments,
                           [kind |-> "found", route |-> i, vals |-> m.vals])
             ELSE ScanKeep(rs, i + 1, method, segments, best)

ScanLast(rs, i, method, segments) ==
    ScanKeep(rs, i, method, segments, [kind |-> "none", route |-> 0, vals |-> <<>>])

\* A variant in which one map serves all the attempts of a dispatch: what
\* the attempt on a route wrote before it was rejected is still in the map
\* when a later route matches.
RECURSIVE matchFromShared(_, _, _, _)
matchFromShared(rsegs, segments, i, vals) ==
    IF i > Len(rsegs) THEN [panic |-> FALSE, found |-> TRUE, vals |-> vals]
    ELSE LET segment == rsegs[i]
         IN  IF Len(segment) = 0
             THEN [panic |-> TRUE, found |-> FALSE, vals |-> vals]
             ELSE IF segment[1] = ":"
             THEN matchFromShared(rsegs, segments, i + 1,
                                  MapPut(vals, ParamName(segment), ParamValue(segments, i)))
             ELSE IF LiteralDiffers(segment, segments[i])
             THEN [panic |-> FALSE, found |-> FALSE, vals |-> vals]
             ELSE matchFromShared(rsegs, segments, i + 1, vals)

RECURSIVE ScanSharedFrom(_, _, _, _, _)
ScanSharedFrom(rs, i, method, segments, vals) ==
    IF i > Len(rs) THEN [kind |-> "none", route |-> 0, vals |-> <<>>]
    ELSE IF Rejects(rs[i], method, segments)
    THEN ScanSharedFrom(rs, i + 1, method, segments, vals)
    ELSE LET m == matchFromShared(rs[i].segments, segments, 1, vals)
         IN  IF m.panic THEN [kind |-> "panic", route |-> i, vals |-> <<>>]
             ELSE IF m.found THEN [kind |-> "found", route |-> i, vals |-> m.vals]
             ELSE ScanSharedFrom(rs, i + 1, method, segments, m.vals)

ScanShared(rs, i, method, segments) == ScanSharedFrom(rs, i, method, segments, <<>>)

\* The loop over r.routes from index i: the first route that matches, a
\* panic inside match, or no route.
RECURSIVE Scan(_, _, _, _)
Scan(rs, i, method, segments) ==
    IF i > Len(rs) THEN [kind |-> "none", route |-> 0, vals |-> <<>>]
    ELSE LET m == match(rs[i], method, segments)
         IN  IF m.panic THEN [kind |-> "panic", route |-> i, vals |-> <<>>]
             ELSE IF m.found THEN [kind |-> "found", route |-> i, vals |-> m.vals]
             ELSE Scan(rs, i + 1, method, segments)

\* A variant that attaches the map even when it is empty.
DerivedAlways(req, vals) == [req EXCEPT !.ctx = WithVals(vals)]

\* A variant that adds the new bindings to those the request came with.
DerivedMerged(req, vals) ==
    IF Cardinality(DOMAIN vals) > 0
    THEN [req EXCEPT !.ctx = WithVals(
            [n \in DOMAIN vals \cup DOMAIN req.ctx.vals |->
                IF n \in DOMAIN vals THEN vals[n] ELSE req.ctx.vals[n]])]
    ELSE req

\* The request given to the matched handler: the request itself, or a copy
\* whose context carries the map when the map is not empty.
Derived(req, vals) ==
    IF Cardinality(DOMAIN vals) > 0
    THEN [req EXCEPT !.ctx = WithVals(vals)]
    ELSE req

\* One handler invocation: the handler, the route it belongs to (0 for a
\* fallback), the request it was given, and what Var gives it on that
\* request.
Invocation(handler, route, req) ==
    [handler |-> handler, route |-> route, req |-> req,
     seen |-> [key \in LookupKeys |-> Var(req, key)]]

\* The fallback taken when no route matches.
Fallback(nf, req) ==
    IF nf # NilHandler
    THEN [calls |-> <<Invocation(nf, 0, req)>>, resp |-> NoResponse]
    ELSE [calls |-> <<Invocation(PageNotFoundFn, 0, req)>>, resp |-> DefaultResponse]

\* A variant in which the context is set in the caller's request itself.
CallerRequestInPlace(req, vals) == Derived(req, vals)

\* The request object the caller passed, as it is after a match with vals:
\* req.WithContext fills a copy and the local variable req is pointed at the
\* copy, so nothing is written to the caller's object.
CallerRequest(req, vals) == req

\* A whole ServeHTTP call on table rs with fallback nf: the handler
\* invocations, whether it panicked, what package mux wrote, and the
\* caller's request object afterwards.
Serve(rs, nf, req) ==
    LET r == Scan(rs, 1, req.method, RequestSegments(req.path))
    IN  CASE r.kind = "panic" ->
               [calls |-> <<>>, panic |-> TRUE, resp |-> NoResponse, after |-> req]
          [] r.kind = "found" ->
               [calls |-> <<Invocation(rs[r.route].handler, r.route, Derived(req, r.vals))>>,
                panic |-> FALSE, resp |-> NoResponse,
                after |-> CallerRequest(req, r.vals)]
          [] OTHER ->
               [calls |-> Fallback(nf, req).calls, panic |-> FALSE,
                resp |-> Fallback(nf, req).resp, after |-> req]

ServeHTTP(req) ==
    /\ ~aborted
    /\ \A p \in Procs : pc[p] = "idle"
    /\ LET s == Serve(routes, NotFoundHandler, req)
       IN  out' = [op |-> "ServeHTTP", method |-> req.method, path |-> req.path,
                   ctx |-> req.ctx, handler |-> NilHandler, calls |-> s.calls,
                   panic |-> s.panic, resp |-> s.resp, after |-> s.after,
                   lookups |-> <<>>]
    /\ UNCHANGED <<routes, NotFoundHandler, aborted, concVars, appVars>>

-----------------------------------------------------------------------------
(* The sequential specification: registrations and dispatches, one call at *)
(* a time.                                                                 *)

NoCall ==
    [op |-> "none", method |-> "", path |-> <<>>, ctx |-> NoVals,
     handler |-> NilHandler, calls |-> <<>>, panic |-> FALSE, resp |-> NoResponse,
     after |-> IdleRequest, lookups |-> <<>>]

\* The example service before any request: newStore() and no response.
EmptyStore == <<>>

NoReply ==
    [op |-> "none", path |-> <<>>, body |-> "", handler |-> NilHandler,
     codes |-> <<>>, writes |-> <<>>, panic |-> FALSE]

AppIdle ==
    /\ store = EmptyStore
    /\ reply = NoReply

ConcIdle ==
    /\ pc = [p \in Procs |-> "idle"]
    /\ rq = [p \in Procs |-> [method |-> "", path |-> <<>>, ctx |-> NoVals]]
    /\ segs = [p \in Procs |-> <<>>]
    /\ idx = [p \in Procs |-> 0]
    /\ hit = [p \in Procs |-> [route |-> 0, slot |-> 0]]
    /\ heap = [p \in Procs |-> <<>>]
    /\ obs = [p \in Procs |-> <<>>]

Init ==
    /\ routes = <<>>
    /\ NotFoundHandler \in {NilHandler, UserNotFound}
    /\ aborted = FALSE
    /\ out = NoCall
    /\ ConcIdle
    /\ AppIdle

Next ==
    \/ \E method \in Methods, path \in Patterns :
          HandleFunc(method, path, NextHandler(routes))
    \/ \E req \in Requests : ServeHTTP(req)

Spec == Init /\ [][Next]_vars

-----------------------------------------------------------------------------
(* The concurrent specification: the http server runs ServeHTTP for        *)
(* several requests at once.  A call is taken in steps: it reads the path  *)
(* (Begin), tries one route per step (Try), and then runs the matched      *)
(* handler (Call) or the fallback (NotFound).  The map made by match is a  *)
(* reference: the handler reads it, through Var, when it runs.             *)

\* Paths registered and requested while requests run concurrently:
\* "/:k", "/:k/:j" and "//"; "/a", "/b" and "/a/b".
ConcPatterns ==
    { <<"/", ":", "k">>,
      <<"/", ":", "k", "/", ":", "j">>,
      <<"/", "/">> }

ConcRequests ==
    [method : {"GET"},
     path : { <<"/", "a">>, <<"/", "b">>, <<"/", "a", "/", "b">> },
     ctx : {NoVals}]

\* A variant in which every call of match fills one and the same map.
AllocSlotShared(p) == 1

\* The slot of the map that a match running in call p makes: a new map for
\* every call of match, so no other call in flight holds it.
AllocSlot(p) == p

NoHit == [route |-> 0, slot |-> 0]

Begin(p, req) ==
    /\ ~aborted
    /\ pc[p] = "idle"
    /\ pc' = [pc EXCEPT ![p] = "scan"]
    /\ rq' = [rq EXCEPT ![p] = req]
    /\ segs' = [segs EXCEPT ![p] = RequestSegments(req.path)]
    /\ idx' = [idx EXCEPT ![p] = 1]
    /\ UNCHANGED <<seqVars, appVars, hit, heap, obs>>

Try(p) ==
    /\ pc[p] = "scan"
    /\ idx[p] <= Len(routes)
    /\ LET m == match(routes[idx[p]], rq[p].method, segs[p])
       IN  IF m.panic
           THEN /\ pc' = [pc EXCEPT ![p] = "panic"]
                /\ UNCHANGED <<idx, hit, heap>>
           ELSE IF m.found
           THEN /\ pc' = [pc EXCEPT ![p] = "call"]
                /\ hit' = [hit EXCEPT ![p] = [route |-> idx[p], slot |-> AllocSlot(p)]]
                /\ heap' = [heap EXCEPT ![AllocSlot(p)] = m.vals]
                /\ UNCHANGED idx
           ELSE /\ idx' = [idx EXCEPT ![p] = idx[p] + 1]
                /\ UNCHANGED <<pc, hit, heap>>
    /\ UNCHANGED <<seqVars, appVars, rq, segs, obs>>

Call(p) ==
    /\ pc[p] = "call"
    /\ obs' = [obs EXCEPT ![p] =
                 <<Invocation(routes[hit[p].route].handler, hit[p].route,
                              Derived(rq[p], heap[hit[p].slot]))>>]
    /\ pc' = [pc EXCEPT ![p] = "done"]
    /\ UNCHANGED <<seqVars, appVars, rq, segs, idx, hit, heap>>

NotFound(p) ==
    /\ pc[p] = "scan"
    /\ idx[p] > Len(routes)
    /\ obs' = [obs EXCEPT ![p] = Fallback(NotFoundHandler, rq[p]).calls]
    /\ pc' = [pc EXCEPT ![p] = "done"]
    /\ UNCHANGED <<seqVars, appVars, rq, segs, idx, hit, heap>>

\* The call returns (or its panic is recovered by the server) and the
\* worker is free for the next request.
Finish(p) ==
    /\ pc[p] \in {"done", "panic"}
    /\ pc' = [pc EXCEPT ![p] = "idle"]
    /\ rq' = [rq EXCEPT ![p] = IdleRequest]
    /\ segs' = [segs EXCEPT ![p] = <<>>]
    /\ idx' = [idx EXCEPT ![p] = 0]
    /\ hit' = [hit EXCEPT ![p] = NoHit]
    /\ obs' = [obs EXCEPT ![p] = <<>>]
    /\ heap' = [heap EXCEPT ![AllocSlot(p)] = <<>>]
    /\ UNCHANGED <<seqVars, appVars>>

NextConc ==
    \/ \E path \in ConcPatterns : HandleFunc("GET", path, NextHandler(routes))
    \/ \E p \in Procs, req \in ConcRequests : Begin(p, req)
    \/ \E p \in Procs : Try(p)
    \/ \E p \in Procs : Call(p)
    \/ \E p \in Procs : NotFound(p)
    \/ \E p \in Procs : Finish(p)

SpecConc == Init /\ [][NextConc]_vars

-----------------------------------------------------------------------------
(* The specification of the lookups: after a dispatch, the handler that    *)
(* was invoked calls Var on the request it was given, several times.       *)

\* The most calls of Var a handler makes.
MaxLookups == 2

\* Paths registered, "/:k" and "/a", and requested, "/a" and "/b".
VarPatterns ==
    { <<"/", ":", "k">>,
      <<"/", "a">> }

VarRequests ==
    [method : {"GET"}, path : { <<"/", "a">>, <<"/", "b">> }, ctx : Contexts]

\* A variant in which looking up a key that the map does not hold puts the
\* key in the map, with the empty string.
RequestAfterVarInsert(r, key) ==
    IF r.ctx.has /\ key \notin DOMAIN r.ctx.vals
    THEN [r EXCEPT !.ctx = WithVals(MapPut(r.ctx.vals, key, <<>>))]
    ELSE r

\* The request after Var(r, key): Var reads the context value and indexes
\* the map, and assigns to nothing that r reaches.
RequestAfterVar(r, key) == r

\* The handler of the last dispatch calls Var(r, key) on its request.
VarCall(key) ==
    /\ ~aborted
    /\ \A p \in Procs : pc[p] = "idle"
    /\ out.op = "ServeHTTP"
    /\ Len(out.calls) = 1
    /\ Len(out.lookups) < MaxLookups
    /\ LET r == out.calls[1].req
       IN  out' = [out EXCEPT
                     !.lookups = Append(@, [key |-> key, res |-> Var(r, key)]),
                     !.calls[1].req = RequestAfterVar(r, key)]
    /\ UNCHANGED <<routes, NotFoundHandler, aborted, concVars, appVars>>

NextVar ==
    \/ \E path \in VarPatterns : HandleFunc("GET", path, NextHandler(routes))
    \/ \E req \in VarRequests : ServeHTTP(req)
    \/ \E key \in LookupKeys : VarCall(key)

SpecVar == Init /\ [][NextVar]_vars

-----------------------------------------------------------------------------
(* The specification of the texts: registrations whose paths come with and *)
(* without a '/' at either end, and requests whose escaped paths hold      *)
(* percent-escapes.                                                        *)

\* Paths made of non-empty segments: "a", ":k" and "a/b".
NormBases ==
    { <<"a">>,
      <<":", "k">>,
      <<"a", "/", "b">> }

\* The four ways of writing p in a registration: p, /p, p/ and /p/.
Variants(p) ==
    { p, <<"/">> \o p, p \o <<"/">>, <<"/">> \o p \o <<"/">> }

TextPatterns == UNION { Variants(p) : p \in NormBases }

\* Escaped request paths: "/a", "/b", "/a/b", "/a%2Fb", "/%2Fa%2Fb",
\* "/a/%2Fb", "/A" and "/%61".
TextRequestPaths ==
    { <<"/", "a">>,
      <<"/", "A">>,
      <<"/", "%", "6", "1">>,
      <<"/", "b">>,
      <<"/", "a", "/", "b">>,
      <<"/", "a", "%", "2", "F", "b">>,
      <<"/", "%", "2", "F", "a", "%", "2", "F", "b">>,
      <<"/", "a", "/", "%", "2", "F", "b">> }

TextRequests == [method : Methods, path : TextRequestPaths, ctx : {NoVals}]

NextText ==
    \/ \E method \in Methods, path \in TextPatterns :
          HandleFunc(method, path, NextHandler(routes))
    \/ \E req \in TextRequests : ServeHTTP(req)

SpecText == Init /\ [][NextText]_vars

-----------------------------------------------------------------------------
(* The specification of the escapes that do not decode: ServeHTTP is given *)
(* paths in which a '%' is not followed by two hex digits, the text for    *)
(* which url.QueryUnescape returns an error in match.                      *)

\* Paths registered: "/:k" and "/a/:k".
BadEscapePatterns ==
    { <<"/", ":", "k">>,
      <<"/", "a", "/", ":", "k">> }

\* Paths requested: "/%zz", "/a%", "/a/%2", and the well-formed "/%2Fa" and
\* "/a/b".
BadEscapePaths ==
    { <<"/", "%", "z", "z">>,
      <<"/", "a", "%">>,
      <<"/", "a", "/", "%", "2">>,
      <<"/", "%", "2", "F", "a">>,
      <<"/", "a", "/", "b">> }

BadEscapeRequests == [method : Methods, path : BadEscapePaths, ctx : {NoVals}]

NextBadEscape ==
    \/ \E method \in Methods, path \in BadEscapePatterns :
          HandleFunc(method, path, NextHandler(routes))
    \/ \E req \in BadEscapeRequests : ServeHTTP(req)

SpecBadEscape == Init /\ [][NextBadEscape]_vars

-----------------------------------------------------------------------------
(* The specification of the methods: HandleFunc and ServeHTTP are given    *)
(* method strings that differ in case only and one that is no HTTP method. *)

AnyMethods == {"GET", "get", "BREW"}

\* Paths registered: "/a", "/:k" and "//".
MethodPatterns ==
    { <<"/", "a">>,
      <<"/", ":", "k">>,
      <<"/", "/">> }

\* Paths requested: "/a" and "/b".
MethodRequests ==
    [method : AnyMethods, path : { <<"/", "a">>, <<"/", "b">> }, ctx : {NoVals}]

NextMethod ==
    \/ \E method \in AnyMethods, path \in MethodPatterns :
          HandleFunc(method, path, NextHandler(routes))
    \/ \E req \in MethodRequests : ServeHTTP(req)

SpecMethod == Init /\ [][NextMethod]_vars

-----------------------------------------------------------------------------
(* The specification of the parameters: routes that capture a segment and  *)
(* then reject on a later literal, a route with one name twice, a route    *)
(* whose parameter has the empty name, and requests that arrive with       *)
(* bindings already attached.                                              *)

\* Paths registered: "/:j/a", "/:k/b", "/a/:k/:k", "/:" and "/a/b".
ParamPatterns ==
    { <<"/", ":", "j", "/", "a">>,
      <<"/", ":", "k", "/", "b">>,
      <<"/", "a", "/", ":", "k", "/", ":", "k">>,
      <<"/", ":">>,
      <<"/", "a", "/", "b">> }

\* Paths requested: "/x/a", "/x/b", "//b", "/a/x/y", "/x", "//" and "/a/b".
ParamPaths ==
    { <<"/", "x", "/", "a">>,
      <<"/", "x", "/", "b">>,
      <<"/", "/", "b">>,
      <<"/", "a", "/", "x", "/", "y">>,
      <<"/", "x">>,
      <<"/", "/">>,
      <<"/", "a", "/", "b">> }

ParamRequests == [method : {"GET"}, path : ParamPaths, ctx : Contexts]

NextParams ==
    \/ \E path \in ParamPatterns : HandleFunc("GET", path, NextHandler(routes))
    \/ \E req \in ParamRequests : ServeHTTP(req)

SpecParams == Init /\ [][NextParams]_vars

-----------------------------------------------------------------------------
(* The example key-value service (cmd/example): a router with the routes   *)
(* PUT /val/:key and DELETE /val/:key, whose handlers putVal and deleteVal *)
(* work on a Store, a map from keys to decoded JSON values.                *)

\* A decoded JSON value, an interface{}: its dynamic type and its text.
JsonValue(type, text) == [type |-> type, v |-> text]

\* Request bodies: "cat", "sleepy", [1] and the malformed {.
Bodies == {"\"cat\"", "\"sleepy\"", "[1]", "{"}

\* decoder.Decode(&data) on a body: the value, or an error.
Decode(body) ==
    CASE body = "\"cat\"" -> [err |-> FALSE, value |-> JsonValue("string", "cat")]
      [] body = "\"sleepy\"" -> [err |-> FALSE, value |-> JsonValue("string", "sleepy")]
      [] body = "[1]" -> [err |-> FALSE, value |-> JsonValue("[]interface {}", "1")]
      [] OTHER -> [err |-> TRUE, value |-> JsonValue("nil", "")]

\* The dynamic types Go cannot compare with ==.
Uncomparable == {"[]interface {}", "map[string]interface {}"}

\* val == data on two interface{} values: false for different dynamic
\* types, a run-time panic for one uncomparable type, else the values'
\* equality.
InterfaceEq(a, b) ==
    IF a.type # b.type THEN "false"
    ELSE IF a.type \in Uncomparable THEN "panic"
    ELSE IF a.v = b.v THEN "true" ELSE "false"

\* Store.get, Store.upsert and Store.delete.
StoreHas(st, k) == k \in DOMAIN st

StoreUpsert(st, k, v) == MapPut(st, k, v)

StoreDelete(st, k) == [n \in DOMAIN st \ {k} |-> st[n]]

\* The route parameter the handlers read: "key".
KeyName == <<"k", "e", "y">>

\* What a handler writes: writeMap of one pair, or writeErr.
PairWritten(key, val) == [kind |-> "pair", key |-> key, val |-> val]

ErrWritten == [kind |-> "error", key |-> <<>>, val |-> JsonValue("nil", "")]

\* What a handler did: the store afterwards, the codes given to WriteHeader,
\* the bodies written, and whether it panicked.
Handled(st, codes, writes, panic) ==
    [store |-> st, codes |-> codes, writes |-> writes, panic |-> panic]

\* putVal: decode the body (400 on an error); read the parameter "key"
\* (500 is written when there is none, and the handler goes on); for a key
\* the store holds, 304 when val == data and else an update with no code
\* written; for a new key, 201.
putVal(st, r, body) ==
    LET d == Decode(body)
        kv == Var(r, KeyName)
        key == kv[1]
        codes == IF kv[2] THEN <<>> ELSE <<500>>
        writes == IF kv[2] THEN <<>> ELSE <<ErrWritten>>
        pair == PairWritten(key, d.value)
    IN  IF d.err THEN Handled(st, <<400>>, <<ErrWritten>>, FALSE)
        ELSE IF StoreHas(st, key)
        THEN CASE InterfaceEq(st[key], d.value) = "panic" ->
                    Handled(st, codes, writes, TRUE)
               [] InterfaceEq(st[key], d.value) = "true" ->
                    Handled(st, codes \o <<304>>, Append(writes, pair), FALSE)
               [] OTHER ->
                    Handled(StoreUpsert(st, key, d.value), codes,
                            Append(writes, pair), FALSE)
        ELSE Handled(StoreUpsert(st, key, d.value), codes \o <<201>>,
                     Append(writes, pair), FALSE)

\* A variant that answers alike but leaves the key in the store.
deleteValKeep(st, r) ==
    LET kv == Var(r, KeyName)
    IN  IF StoreHas(st, kv[1])
        THEN Handled(st, <<>>, <<PairWritten(kv[1], st[kv[1]])>>, FALSE)
        ELSE Handled(st, <<404>>, <<ErrWritten>>, FALSE)

\* deleteVal: read the parameter "key" (500 is written when there is none,
\* and the handler goes on); delete a key the store holds and write the
\* pair, or write the key error, 404.
deleteVal(st, r) ==
    LET kv == Var(r, KeyName)
        key == kv[1]
        codes == IF kv[2] THEN <<>> ELSE <<500>>
        writes == IF kv[2] THEN <<>> ELSE <<ErrWritten>>
    IN  IF StoreHas(st, key)
        THEN Handled(StoreDelete(st, key), codes,
                     Append(writes, PairWritten(key, st[key])), FALSE)
        ELSE Handled(st, codes \o <<404>>, Append(writes, ErrWritten), FALSE)

\* notFound: writeErr(w, 404, "not found").
notFound(st) == Handled(st, <<404>>, <<ErrWritten>>, FALSE)

\* The routes of the example's router, in registration order.
PutValHandler == RouteHandler(1)

DeleteValHandler == RouteHandler(2)

ValKeyPattern == <<"/", "v", "a", "l", "/", ":", "k", "e", "y">>

ExampleRoutes ==
    << NewRoute("PUT", RootPattern(TrimPattern(ValKeyPattern)), PutValHandler),
       NewRoute("DELETE", RootPattern(TrimPattern(ValKeyPattern)), DeleteValHandler) >>

\* Paths requested: "/val/a", "/val/b" and "/val".
ValPrefix == <<"/", "v", "a", "l">>

ExamplePaths ==
    { ValPrefix \o <<"/", "a">>,
      ValPrefix \o <<"/", "b">>,
      ValPrefix }

\* The handler that the router invoked runs on the store.
RunHandler(c, st, body) ==
    CASE c.handler = PutValHandler -> putVal(st, c.req, body)
      [] c.handler = DeleteValHandler -> deleteVal(st, c.req)
      [] OTHER -> notFound(st)

\* One request to the example service: the router dispatches it and the
\* handler it invokes reads and writes the store.
AppRequest(method, path, body) ==
    /\ ~aborted
    /\ \A p \in Procs : pc[p] = "idle"
    /\ LET req == [method |-> method, path |-> path, ctx |-> NoVals]
           s == Serve(routes, NotFoundHandler, req)
           h == IF Len(s.calls) = 1
                THEN RunHandler(s.calls[1], store, body)
                ELSE Handled(store, <<>>, <<>>, TRUE)
       IN  /\ out' = [op |-> "ServeHTTP", method |-> req.method, path |-> req.path,
                      ctx |-> req.ctx, handler |-> NilHandler, calls |-> s.calls,
                      panic |-> s.panic, resp |-> s.resp, after |-> s.after,
                      lookups |-> <<>>]
           /\ store' = h.store
           /\ reply' = [op |-> method, path |-> path, body |-> body,
                        handler |-> IF Len(s.calls) = 1 THEN s.calls[1].handler
                                    ELSE NilHandler,
                        codes |-> h.codes, writes |-> h.writes, panic |-> h.panic]
    /\ UNCHANGED <<routes, NotFoundHandler, aborted, concVars>>

InitStore ==
    /\ routes = ExampleRoutes
    /\ NotFoundHandler = UserNotFound
    /\ aborted = FALSE
    /\ out = NoCall
    /\ ConcIdle
    /\ AppIdle

NextStore ==
    \/ \E path \in ExamplePaths, body \in Bodies : AppRequest("PUT", path, body)
    \/ \E path \in ExamplePaths : AppRequest("DELETE", path, "")

SpecStore == InitStore /\ [][NextStore]_vars

\* The status of the response: the first code given to WriteHeader, or 200
\* when a body was written with none.
Status(r) == IF Len(r.codes) > 0 THEN r.codes[1] ELSE 200

-----------------------------------------------------------------------------
(* The properties.  A route matches a request, in the words of the         *)
(* specification, when the methods are equal, the numbers of segments are  *)
(* equal and every literal segment of the route equals the request's       *)
(* segment at its position; a segment is a parameter when it starts with   *)
(* ':' and a literal otherwise.                                            *)

IsParam(segment) == Len(segment) > 0 /\ segment[1] = ":"

Matches(route, method, segments) ==
    /\ route.method = method
    /\ Len(route.segments) = Len(segments)
    /\ \A i \in 1..Len(route.segments) :
          ~IsParam(route.segments[i]) => route.segments[i] = segments[i]

\* The lowest index of a route of rs that matches, or 0.
FirstMatch(rs, method, segments) ==
    IF \E k \in 1..Len(rs) : Matches(rs[k], method, segments)
    THEN CHOOSE k \in 1..Len(rs) :
            /\ Matches(rs[k], method, segments)
            /\ \A j \in 1..(k - 1) : ~Matches(rs[j], method, segments)
    ELSE 0

\* The last call was a dispatch.
Served == out.op = "ServeHTTP"

\* The request of the last dispatch, and its segments.
ServedRequest == [method |-> out.method, path |-> out.path, ctx |-> out.ctx]

ServedSegments == RequestSegments(out.path)

\* The parameter names of a route are pairwise distinct.
DistinctNames(route) ==
    \A i, j \in 1..Len(route.segments) :
        (i # j /\ IsParam(route.segments[i]) /\ IsParam(route.segments[j]))
            => Tail(route.segments[i]) # Tail(route.segments[j])

\* C1, as claimed: every dispatch of a request that some route matches
\* invokes the handler of the lowest-index matching route, and only that one.
C1_FirstRegisteredWins ==
    Served =>
        LET k == FirstMatch(routes, out.method, ServedSegments)
        IN  k > 0 =>
               /\ Len(out.calls) = 1
               /\ out.calls[1].route = k
               /\ out.calls[1].handler = routes[k].handler

C3_ParameterCapture ==
    Served =>
        \A n \in 1..Len(out.calls) :
            LET c == out.calls[n]
            IN  (c.route > 0 /\ DistinctNames(routes[c.route])) =>
                   \A i \in 1..Len(routes[c.route].segments) :
                       IsParam(routes[c.route].segments[i]) =>
                           Var(c.req, Tail(routes[c.route].segments[i]))
                              = <<QueryUnescape(ServedSegments[i]).value, TRUE>>

\* C3's case: route /:k/:j dispatched for the request /a/b, whose handler
\* sees k = "a" and j = "b".
C3_Witness ==
    /\ Served
    /\ Len(out.calls) = 1
    /\ out.calls[1].route > 0
    /\ routes[out.calls[1].route].segments = << <<":", "k">>, <<":", "j">> >>
    /\ out.calls[1].seen[<<"k">>] = << <<"a">>, TRUE >>
    /\ out.calls[1].seen[<<"j">>] = << <<"b">>, TRUE >>

\* C4: the route a dispatch invokes has as many segments as the request; a
\* route with another number of segments is never the one dispatched.
C4_SegmentCountRejects ==
    Served =>
        \A n \in 1..Len(out.calls) :
            out.calls[n].route > 0 =>
                Len(routes[out.calls[n].route].segments) = Len(ServedSegments)

\* C4's case: a route of the request's method whose segments all agree with
\* the request's first segments but which is shorter than the request (/a
\* against /a/b), and the dispatch did not invoke it.
C4_Witness ==
    /\ Served
    /\ ~out.panic
    /\ \E k \in 1..Len(routes) :
          /\ routes[k].method = out.method
          /\ Len(routes[k].segments) < Len(ServedSegments)
          /\ \A i \in 1..Len(routes[k].segments) :
                routes[k].segments[i] = ServedSegments[i]
          /\ \A n \in 1..Len(out.calls) : out.calls[n].route # k

\* C5, as claimed: every dispatch invokes exactly one handler.
C5_ExactlyOneHandler ==
    Served => Len(out.calls) = 1

\* C6, as claimed: when no route matches and a NotFoundHandler is configured,
\* the dispatch invokes exactly that handler, with the original request, and
\* package mux writes no response of its own.
C6_ConfiguredFallback ==
    (Served /\ NotFoundHandler # NilHandler
            /\ FirstMatch(routes, out.method, ServedSegments) = 0)
        => /\ out.calls = <<Invocation(NotFoundHandler, 0, ServedRequest)>>
           /\ out.resp = NoResponse

\* C7, as claimed: when no route matches and no NotFoundHandler is
\* configured, the response is 404 with the fixed default body, and the
\* dispatch does not fail.
C7_DefaultNotFound ==
    (Served /\ NotFoundHandler = NilHandler
            /\ FirstMatch(routes, out.method, ServedSegments) = 0)
        => /\ ~out.panic
           /\ out.resp = [status |-> 404, body |-> "404.4 <U+2013> No handler configured."]

\* C8, as claimed: whatever was registered, a dispatch ends normally, having
\* invoked a matched route's handler or the fallback; matching never aborts.
C8_MatchingIsTotal ==
    Served =>
        /\ ~out.panic
        /\ \E n \in 1..Len(out.calls) :
              \/ out.calls[n].route \in 1..Len(routes)
              \/ out.calls[n].handler \in {NotFoundHandler, PageNotFoundFn}

\* C9: in any interleaving of concurrent dispatches, what a handler sees
\* through Var is what match captures from the path of its own request (or,
\* for a fallback, what its own request carried).
C9_Isolation ==
    \A p \in Procs :
        \A n \in 1..Len(obs[p]) :
            LET c == obs[p][n]
                own == IF c.route > 0
                       THEN Derived(rq[p], match(routes[c.route], rq[p].method,
                                                 RequestSegments(rq[p].path)).vals)
                       ELSE rq[p]
            IN  \A key \in LookupKeys : c.seen[key] = Var(own, key)

\* C9's case: two dispatches in flight at once that both matched a
\* parameter route with different values of k, one handler having run.
C9_Witness ==
    \E p, q \in Procs :
        /\ p # q
        /\ pc[p] = "done"
        /\ pc[q] \in {"call", "done"}
        /\ Len(obs[p]) = 1
        /\ obs[p][1].route > 0
        /\ hit[q].route > 0
        /\ rq[p].path # rq[q].path
        /\ obs[p][1].seen[<<"k">>] = << <<"a">>, TRUE >>
        /\ heap[hit[q].slot][<<"k">>] = <<"b">>

\* C10, as claimed: a registration with a non-empty path completes without
\* a panic and appends exactly its route to the table.
C10_RegisterAddsOneRoute ==
    (out.op = "HandleFunc" /\ Len(out.path) > 0)
        => /\ ~out.panic
           /\ Len(routes) = out.handler.id
           /\ routes[Len(routes)].handler = out.handler

\* C11: a registration with the empty path changes nothing and signals
\* nothing: the route table and the fallback are as they were, and the call
\* does not panic.
C11_EmptyPathIgnored ==
    [][(out'.op = "HandleFunc" /\ Len(out'.path) = 0)
          => /\ routes' = routes
             /\ NotFoundHandler' = NotFoundHandler
             /\ ~out'.panic
             /\ ~aborted']_vars

\* C11's case: a registration with the empty path was made on a table that
\* holds a route, and the table still holds exactly that route.
C11_Witness ==
    /\ out.op = "HandleFunc"
    /\ Len(out.path) = 0
    /\ ~out.panic
    /\ Len(routes) = 1
    /\ out.handler.id = 2

\* C12: for a path p of non-empty segments, a registration written p, /p, p/
\* or /p/ appends a route whose segments are the segments of p, so the four
\* store the same sequence; the route then matches a request exactly when
\* the request matches those segments, whichever way p was written.
C12_RegistrationNormalised ==
    out.op = "HandleFunc" =>
        \A p \in NormBases :
            out.path \in Variants(p) =>
                /\ ~out.panic
                /\ Len(routes) = out.handler.id
                /\ routes[Len(routes)] =
                      [method |-> out.method, segments |-> Split(p, "/"),
                       handler |-> out.handler]
                /\ \A req \in TextRequests :
                      match(routes[Len(routes)], req.method,
                            RequestSegments(req.path)).found
                        <=> Matches([method |-> out.method, segments |-> Split(p, "/")],
                                    req.method, RequestSegments(req.path))

\* C12's case: the path "a/b/", with no '/' in front and one at the end, was
\* registered after another route and is stored as the segments a, b.
C12_Witness ==
    /\ out.op = "HandleFunc"
    /\ out.path = <<"a", "/", "b", "/">>
    /\ Len(routes) = 2
    /\ routes[2].segments = << <<"a">>, <<"b">> >>

\* Two dispatches have the same outcome: the same handler of the same route
\* with the same bindings, or the same fallback and response, or both panic.
SameOutcome(a, b) ==
    /\ a.panic = b.panic
    /\ a.resp = b.resp
    /\ Len(a.calls) = Len(b.calls)
    /\ \A n \in 1..Len(a.calls) :
          /\ a.calls[n].handler = b.calls[n].handler
          /\ a.calls[n].route = b.calls[n].route
          /\ a.calls[n].req.ctx = b.calls[n].req.ctx
          /\ a.calls[n].seen = b.calls[n].seen

\* The last dispatch, had its request come with the given path instead.
ServedWithPath(path) ==
    Serve(routes, NotFoundHandler, [ServedRequest EXCEPT !.path = path])

\* C13: a dispatch of a non-empty path p that does not end in '/' and the
\* dispatch of p followed by one '/' have the same outcome (handler and
\* bindings), and only one '/' is dropped: p followed by two has one more,
\* empty, segment.
C13_TrailingSlash ==
    Served =>
        LET p == IF Len(out.path) > 0 /\ out.path[Len(out.path)] = "/"
                 THEN SubSeq(out.path, 1, Len(out.path) - 1)
                 ELSE out.path
        IN  (Len(p) > 0 /\ p[Len(p)] # "/") =>
               /\ SameOutcome(ServedWithPath(p), ServedWithPath(p \o <<"/">>))
               /\ SameOutcome(out, ServedWithPath(p))
               /\ RequestSegments(p \o <<"/", "/">>)
                     = Append(RequestSegments(p), <<>>)

\* C13's case: the request /a/ was dispatched to a route stored as the
\* segment a, the route that the request /a reaches.
C13_Witness ==
    /\ Served
    /\ out.path = <<"/", "a", "/">>
    /\ Len(out.calls) = 1
    /\ out.calls[1].route > 0
    /\ routes[out.calls[1].route].segments = << <<"a">> >>
    /\ ServedWithPath(<<"/", "a">>).calls[1].route = out.calls[1].route

\* The number of times c occurs in s.
RECURSIVE Count(_, _)
Count(s, c) ==
    IF Len(s) = 0 THEN 0
    ELSE (IF Head(s) = c THEN 1 ELSE 0) + Count(Tail(s), c)

\* The escaped path of the last dispatch without its one trailing '/'.
ServedClean ==
    IF Len(out.path) > 0 /\ out.path[Len(out.path)] = "/"
    THEN SubSeq(out.path, 1, Len(out.path) - 1)
    ELSE out.path

\* The text between the i-th '/' of s and the next one (or the end of s).
RawSegment(s, i) == Split(s, "/")[i + 1]

\* C14: the route dispatched has as many segments as the escaped path has
\* '/' characters, whatever escapes the path holds, so %2F never adds a
\* segment; a parameter is bound to the text of its own escaped segment,
\* decoded after the split, and for the segment %2Fa%2Fb that is /a/b.
C14_DecodeAfterSplit ==
    Served =>
        \A n \in 1..Len(out.calls) :
            LET c == out.calls[n]
            IN  c.route > 0 =>
                  /\ Len(routes[c.route].segments) = Count(ServedClean, "/")
                  /\ \A i \in 1..Len(routes[c.route].segments) :
                        LET seg == routes[c.route].segments[i]
                        IN  (IsParam(seg) /\ DistinctNames(routes[c.route])) =>
                              /\ c.req.ctx.has
                              /\ Tail(seg) \in DOMAIN c.req.ctx.vals
                              /\ c.req.ctx.vals[Tail(seg)]
                                    = QueryUnescape(RawSegment(ServedClean, i)).value
                              /\ RawSegment(ServedClean, i)
                                    = <<"%", "2", "F", "a", "%", "2", "F", "b">>
                                  => c.req.ctx.vals[Tail(seg)] = <<"/", "a", "/", "b">>

\* C14's case: the request /%2Fa%2Fb was dispatched to the one-segment route
\* /:k, whose handler sees k = "/a/b".
C14_Witness ==
    /\ Served
    /\ out.path = <<"/", "%", "2", "F", "a", "%", "2", "F", "b">>
    /\ Len(out.calls) = 1
    /\ out.calls[1].route > 0
    /\ routes[out.calls[1].route].segments = << <<":", "k">> >>
    /\ out.calls[1].seen[<<"k">>] = << <<"/", "a", "/", "b">>, TRUE >>

DecodeFailureBindsEmpty ==
    Served =>
        LET k == FirstMatch(routes, out.method, ServedSegments)
        IN  k > 0 =>
              \A i \in 1..Len(routes[k].segments) :
                  (IsParam(routes[k].segments[i])
                      /\ QueryUnescape(ServedSegments[i]).err) =>
                        /\ ~out.panic
                        /\ Len(out.calls) = 1
                        /\ out.calls[1].route = k
                        /\ Var(out.calls[1].req, Tail(routes[k].segments[i]))
                              = <<(<<>>), TRUE>>

\* C16: what Var returns to a handler for a key is (value, true) exactly when
\* the handler's request carries bindings that hold the key, and then the
\* value is the bound string; otherwise it is the empty string and false.
C16_LookupResult ==
    Served =>
        \A n \in 1..Len(out.calls) : \A key \in LookupKeys :
            LET c == out.calls[n]
                res == c.seen[key]
                bound == c.req.ctx.has /\ key \in DOMAIN c.req.ctx.vals
            IN  /\ res[2] <=> bound
                /\ bound => res[1] = c.req.ctx.vals[key]
                /\ ~bound => res = <<(<<>>), FALSE>>

\* C16's case: a handler whose request carries bindings looked up a key
\* they hold, "k", and a key they do not hold, "x".
C16_Witness ==
    /\ Served
    /\ Len(out.calls) = 1
    /\ out.calls[1].req.ctx.has
    /\ out.calls[1].seen[<<"k">>] = << <<"a">>, TRUE >>
    /\ out.calls[1].seen[<<"x">>] = << <<>>, FALSE >>

\* Whether a route has a parameter segment.
HasParam(route) ==
    \E i \in 1..Len(route.segments) : IsParam(route.segments[i])

\* C17: after a dispatch the request the caller passed is as it was, so Var
\* on it returns what it returned before; a handler of a route with
\* parameters is given another request, which differs from the caller's only
\* in its context, where it carries the bindings.
C17_CallerRequestUntouched ==
    Served =>
        /\ out.after = ServedRequest
        /\ \A key \in LookupKeys : Var(out.after, key) = Var(ServedRequest, key)
        /\ \A n \in 1..Len(out.calls) :
              LET c == out.calls[n]
              IN  (c.route > 0 /\ HasParam(routes[c.route])) =>
                     /\ c.req.ctx.has
                     /\ c.req.ctx.vals =
                           match(routes[c.route], out.method, ServedSegments).vals
                     /\ c.req = [ServedRequest EXCEPT !.ctx = c.req.ctx]

\* C17's case: a request that came with the binding k = "old" was dispatched
\* to a route with the parameter k; the handler saw k = "a" and the caller's
\* request still gives k = "old".
C17_Witness ==
    /\ Served
    /\ out.ctx = WithVals(OuterVals)
    /\ Len(out.calls) = 1
    /\ out.calls[1].route > 0
    /\ out.calls[1].seen[<<"k">>] = << <<"a">>, TRUE >>
    /\ Var(out.after, <<"k">>) = << <<"o", "l", "d">>, TRUE >>

\* C18: the handler of a route without parameter segments is given the
\* caller's request as it came, with no bindings attached; for a request that
\* came without bindings, Var finds no key in the handler.
C18_NoParamsSameRequest ==
    Served =>
        \A n \in 1..Len(out.calls) :
            LET c == out.calls[n]
            IN  (c.route > 0 /\ ~HasParam(routes[c.route])) =>
                   /\ c.req = ServedRequest
                   /\ ~out.ctx.has =>
                         \A key \in LookupKeys : c.seen[key] = <<(<<>>), FALSE>>

\* C18's case: the route /a, which has no parameter, was dispatched for a
\* request that came without bindings, and its handler found no key.
C18_Witness ==
    /\ Served
    /\ out.ctx = NoVals
    /\ Len(out.calls) = 1
    /\ out.calls[1].route > 0
    /\ routes[out.calls[1].route].segments = << <<"a">> >>
    /\ out.calls[1].req = ServedRequest
    /\ out.calls[1].seen[<<"k">>] = << <<>>, FALSE >>

\* C19: every step leaves the route table as it was or is a registration
\* that adds its own route after the others, which stay as they were; a
\* dispatch leaves the table as it was; at any time the table holds the
\* routes of the registrations that added one, in the order of the calls.
C19_AppendOnly ==
    /\ [](\A k \in 1..Len(routes) : routes[k].handler = RouteHandler(k))
    /\ [][/\ \/ routes' = routes
              \/ /\ out'.op = "HandleFunc"
                 /\ ~out'.panic
                 /\ Len(routes') = Len(routes) + 1
                 /\ routes' = Append(routes, routes'[Len(routes')])
                 /\ routes'[Len(routes')].method = out'.method
                 /\ routes'[Len(routes')].handler = out'.handler
           /\ out'.op = "ServeHTTP" => routes' = routes]_vars

\* C19's case: after two registrations and a dispatch the table holds the
\* two routes in the order in which they were registered.
C19_Witness ==
    /\ Served
    /\ Len(out.calls) = 1
    /\ Len(routes) = 2
    /\ routes[1].handler = RouteHandler(1)
    /\ routes[2].handler = RouteHandler(2)
    /\ routes[1].segments # routes[2].segments

\* C20: a call of Var changes neither the request it is given, with its
\* context and bindings, nor the caller's request nor the route table; calls
\* with the same key return the same result, the one the handler got when it
\* was invoked.
C20_LookupIsPureRead ==
    /\ [][(Len(out'.lookups) = Len(out.lookups) + 1) =>
             /\ out'.calls = out.calls
             /\ out'.after = out.after
             /\ routes' = routes]_vars
    /\ [](\A i, j \in 1..Len(out.lookups) :
             out.lookups[i].key = out.lookups[j].key
                => out.lookups[i].res = out.lookups[j].res)
    /\ [](\A i \in 1..Len(out.lookups) :
             out.lookups[i].res = out.calls[1].seen[out.lookups[i].key])

\* C20's case: a handler whose request carries bindings looked up twice a
\* key they do not hold, "x", and a handler looked up "k" twice.
C20_Witness ==
    /\ Served
    /\ Len(out.lookups) = 2
    /\ out.calls[1].req.ctx.has
    /\ out.lookups[1] = [key |-> <<"x">>, res |-> <<(<<>>), FALSE>>]
    /\ out.lookups[2] = out.lookups[1]

\* The key a request of the example service names: the text after /val/.
ReplyKey(r) == SubSeq(r.path, Len(ValPrefix) + 2, Len(r.path))

\* The request was PUT or DELETE /val/<key>.
OnKey(r) == Len(r.path) > Len(ValPrefix) + 1

\* C21, as claimed: a PUT /val/:key with a JSON body answers 201 when the
\* store does not hold the key, 304 when it holds it with an equal value,
\* leaving the store as it was, and 200 when it holds it with another value;
\* after 201 or 200 the store maps the key to the value sent.
C21_PutStatus ==
    [][(reply'.op = "PUT" /\ OnKey(reply') /\ ~Decode(reply'.body).err) =>
          LET key == ReplyKey(reply')
              val == Decode(reply'.body).value
          IN  /\ ~reply'.panic
              /\ ~StoreHas(store, key) => Status(reply') = 201
              /\ (StoreHas(store, key) /\ store[key] = val) =>
                    (Status(reply') = 304 /\ store' = store)
              /\ (StoreHas(store, key) /\ store[key] # val) => Status(reply') = 200
              /\ Status(reply') \in {200, 201} =>
                    (StoreHas(store', key) /\ store'[key] = val)]_vars

\* What holds of PUT when the stored value and the value sent are not both
\* of one uncomparable type: the claimed statuses and store.
PutStatusOfComparable ==
    [][(reply'.op = "PUT" /\ OnKey(reply') /\ ~Decode(reply'.body).err) =>
          LET key == ReplyKey(reply')
              val == Decode(reply'.body).value
          IN  (StoreHas(store, key) /\ store[key].type = val.type
                  /\ val.type \in Uncomparable)
              \/ /\ ~reply'.panic
                 /\ ~StoreHas(store, key) => Status(reply') = 201
                 /\ (StoreHas(store, key) /\ store[key] = val) =>
                       (Status(reply') = 304 /\ store' = store)
                 /\ (StoreHas(store, key) /\ store[key] # val) =>
                       Status(reply') = 200
                 /\ Status(reply') \in {200, 201} =>
                       (StoreHas(store', key) /\ store'[key] = val)]_vars

\* C22: a DELETE /val/:key for a key the store holds answers 200 with the
\* pair removed, and the store afterwards is the store without that key and
\* nothing else changed; for a key it does not hold, 404 and the store as it
\* was.
C22_DeleteStatus ==
    [][(reply'.op = "DELETE" /\ OnKey(reply')) =>
          LET key == ReplyKey(reply')
          IN  /\ ~reply'.panic
              /\ StoreHas(store, key) =>
                    /\ Status(reply') = 200
                    /\ reply'.writes = <<PairWritten(key, store[key])>>
                    /\ store' = [n \in DOMAIN store \ {key} |-> store[n]]
              /\ ~StoreHas(store, key) =>
                    /\ Status(reply') = 404
                    /\ store' = store]_vars

\* C22's case: DELETE /val/a answered 200 with the pair of a, and the store
\* still holds b.
C22_Witness ==
    /\ reply.op = "DELETE"
    /\ ReplyKey(reply) = <<"a">>
    /\ Status(reply) = 200
    /\ Len(reply.writes) = 1
    /\ reply.writes[1].kind = "pair"
    /\ DOMAIN store = { <<"b">> }

\* C23: a route with a literal segment that differs from the request's raw
\* segment at its position, be it in case only or because the request
\* spells the same text with a percent-escape, is not dispatched; the scan
\* goes on, so that the handler invoked is that of the first route whose
\* literals all equal the raw segments, or the fallback when there is none.
C23_LiteralBytes ==
    Served =>
        \A n \in 1..Len(out.calls) :
            LET c == out.calls[n]
            IN  /\ c.route > 0 =>
                      \A i \in 1..Len(routes[c.route].segments) :
                          ~IsParam(routes[c.route].segments[i]) =>
                              routes[c.route].segments[i] = RawSegment(ServedClean, i)
                /\ c.route = FirstMatch(routes, out.method, ServedSegments)

\* C23's case: the request /%61 on a table whose first route is the literal
\* /a and whose second is /:k; the first was rejected and the second
\* dispatched, with k = "a".
C23_Witness ==
    /\ Served
    /\ out.path = <<"/", "%", "6", "1">>
    /\ Len(routes) = 2
    /\ routes[1].method = out.method
    /\ routes[1].segments = << <<"a">> >>
    /\ Len(out.calls) = 1
    /\ out.calls[1].route = 2
    /\ out.calls[1].seen[<<"k">>] = << <<"a">>, TRUE >>

\* Route k agrees with the segments in length and literals, whatever its
\* method.
PathMatches(route, segments) == Matches(route, route.method, segments)

\* C24, as claimed: a registration stores the method string it is given,
\* whatever it is; the route a dispatch invokes has exactly the request's
\* method; and a request whose path matches a route of another method, while
\* no route matches it, is dispatched to the fallback.
C24_MethodExact ==
    /\ (out.op = "HandleFunc" /\ ~out.panic /\ Len(out.path) > 0)
          => routes[Len(routes)].method = out.method
    /\ Served =>
          /\ \A n \in 1..Len(out.calls) :
                out.calls[n].route > 0 => routes[out.calls[n].route].method = out.method
          /\ ( /\ \E k \in 1..Len(routes) :
                     /\ PathMatches(routes[k], ServedSegments)
                     /\ routes[k].method # out.method
               /\ FirstMatch(routes, out.method, ServedSegments) = 0 )
                => out.calls = Fallback(NotFoundHandler, ServedRequest).calls

\* What holds of the methods in the code: the same, for the dispatches that
\* do not panic.
MethodExactUnlessPanic ==
    /\ (out.op = "HandleFunc" /\ ~out.panic /\ Len(out.path) > 0)
          => routes[Len(routes)].method = out.method
    /\ Served =>
          /\ \A n \in 1..Len(out.calls) :
                out.calls[n].route > 0 => routes[out.calls[n].route].method = out.method
          /\ ( /\ ~out.panic
               /\ \E k \in 1..Len(routes) :
                     /\ PathMatches(routes[k], ServedSegments)
                     /\ routes[k].method # out.method
               /\ FirstMatch(routes, out.method, ServedSegments) = 0 )
                => out.calls = Fallback(NotFoundHandler, ServedRequest).calls

\* A request "get /a" on a table whose only route is "GET /a": the route is
\* not invoked, the fallback is.
MethodCaseDiffers ==
    /\ Served
    /\ out.method = "get"
    /\ Len(routes) = 1
    /\ routes[1].method = "GET"
    /\ PathMatches(routes[1], ServedSegments)
    /\ Len(out.calls) = 1
    /\ out.calls[1].route = 0

\* The parameter names of a route.
ParamNames(route) ==
    { Tail(route.segments[i]) :
        i \in { j \in 1..Len(route.segments) : IsParam(route.segments[j]) } }

\* The names for which Var reported found in a handler invocation.
FoundNames(c) == { key \in LookupKeys : c.seen[key][2] }

\* C25, as claimed: in every dispatch to a route's handler, the names for
\* which Var reports found are exactly the parameter names of the matched
\* route.
C25_FoundNamesAreRouteNames ==
    Served =>
        \A n \in 1..Len(out.calls) :
            LET c == out.calls[n]
            IN  c.route > 0 => FoundNames(c) = ParamNames(routes[c.route])

\* C25, amended: when the matched route has a parameter, or the request
\* arrived without bindings, the names for which Var reports found in the
\* handler are exactly the parameter names of the matched route, each with
\* the decoded text of the request's segment (found also when that text is
\* empty); a name captured by the attempt on an earlier, rejected route is
\* not found.
C25_FreshBindingsPerAttempt ==
    Served =>
        \A n \in 1..Len(out.calls) :
            LET c == out.calls[n]
            IN  (c.route > 0 /\ (HasParam(routes[c.route]) \/ ~out.ctx.has)) =>
                    /\ FoundNames(c) = ParamNames(routes[c.route])
                    /\ \A key \in LookupKeys \ ParamNames(routes[c.route]) :
                          c.seen[key] = << <<>>, FALSE >>

\* C25's case: the request //b on the table /:j/a, /:k/b.  The attempt on
\* the first route captured j and was rejected at its literal; the handler
\* of the second finds k, bound to the empty text, and does not find j.
C25_Witness ==
    /\ Served
    /\ out.path = <<"/", "/", "b">>
    /\ ~out.ctx.has
    /\ Len(routes) = 2
    /\ routes[1].segments = << <<":", "j">>, <<"a">> >>
    /\ routes[2].segments = << <<":", "k">>, <<"b">> >>
    /\ Len(out.calls) = 1
    /\ out.calls[1].route = 2
    /\ out.calls[1].seen[<<"k">>] = << <<>>, TRUE >>
    /\ out.calls[1].seen[<<"j">>] = << <<>>, FALSE >>

\* The last position of route at which the parameter called name stands.
LastPosition(route, name) ==
    CHOOSE i \in 1..Len(route.segments) :
        /\ IsParam(route.segments[i])
        /\ Tail(route.segments[i]) = name
        /\ \A j \in (i + 1)..Len(route.segments) :
              ~(IsParam(route.segments[j]) /\ Tail(route.segments[j]) = name)

\* C26: a registration whose path holds one parameter name twice appends
\* its route like any other, and a dispatch to a route binds every parameter
\* name once, to the decoded text of the request's segment at the last
\* position where the name stands: /a/:k/:k with /a/x/y gives the single
\* entry k = "y".
C26_LaterOccurrenceWins ==
    /\ (out.op = "HandleFunc" /\ out.path = <<"/", "a", "/", ":", "k", "/", ":", "k">>)
          => /\ ~out.panic
             /\ routes[Len(routes)].segments = << <<"a">>, <<":", "k">>, <<":", "k">> >>
             /\ routes[Len(routes)].handler = out.handler
    /\ Served =>
          \A n \in 1..Len(out.calls) :
              LET c == out.calls[n]
              IN  (c.route > 0 /\ HasParam(routes[c.route])) =>
                      /\ c.req.ctx.has
                      /\ DOMAIN c.req.ctx.vals = ParamNames(routes[c.route])
                      /\ \A name \in ParamNames(routes[c.route]) :
                            c.req.ctx.vals[name] =
                               QueryUnescape(
                                 ServedSegments[LastPosition(routes[c.route], name)]).value

\* C26's case: the route /a/:k/:k dispatched for /a/x/y; the map holds k
\* alone, bound to "y".
C26_Witness ==
    /\ Served
    /\ out.path = <<"/", "a", "/", "x", "/", "y">>
    /\ Len(out.calls) = 1
    /\ out.calls[1].route > 0
    /\ routes[out.calls[1].route].segments = << <<"a">>, <<":", "k">>, <<":", "k">> >>
    /\ DOMAIN out.calls[1].req.ctx.vals = { <<"k">> }
    /\ out.calls[1].seen[<<"k">>] = << <<"y">>, TRUE >>

\* C27: a registration of the path "/:" appends a route whose one segment
\* is a parameter with the empty name; that route matches every request of
\* its method with one segment, whatever the segment; and the handler of a
\* route with such a segment is given a request that carries bindings, on
\* which Var with the empty key returns the decoded text of the segment and
\* true.
C27_EmptyParameterName ==
    /\ (out.op = "HandleFunc" /\ out.path = <<"/", ":">>)
          => /\ ~out.panic
             /\ routes[Len(routes)].segments = << <<":">> >>
             /\ routes[Len(routes)].handler = out.handler
    /\ Served =>
          /\ ( /\ Len(routes) > 0
               /\ routes[1].segments = << <<":">> >>
               /\ routes[1].method = out.method
               /\ Len(ServedSegments) = 1 )
                => /\ Len(out.calls) = 1
                   /\ out.calls[1].route = 1
                   /\ out.calls[1].handler = routes[1].handler
          /\ \A n \in 1..Len(out.calls) :
                LET c == out.calls[n]
                IN  (c.route > 0 /\ <<>> \in ParamNames(routes[c.route])) =>
                        /\ c.req.ctx.has
                        /\ Var(c.req, <<>>) =
                              << QueryUnescape(
                                   ServedSegments[LastPosition(routes[c.route], <<>>)]).value,
                                 TRUE >>
                        /\ c.seen[<<>>] = Var(c.req, <<>>)

\* C27's case: the route /: dispatched for the request /x, whose handler
\* finds "x" under the empty key.
C27_Witness ==
    /\ Served
    /\ out.path = <<"/", "x">>
    /\ Len(out.calls) = 1
    /\ out.calls[1].route > 0
    /\ routes[out.calls[1].route].segments = << <<":">> >>
    /\ out.calls[1].seen[<<>>] = << <<"x">>, TRUE >>

\* C30: for a request that arrives with bindings, the handler of a matched
\* route with a parameter finds exactly the names this dispatch captured,
\* with their captured values, and no name bound before, while the handler
\* of a matched route without parameters finds what the request arrived
\* with.
C30_BindingsReplaced ==
    (Served /\ out.ctx.has) =>
        \A n \in 1..Len(out.calls) :
            LET c == out.calls[n]
            IN  c.route > 0 =>
                   IF HasParam(routes[c.route])
                   THEN /\ \A key \in ParamNames(routes[c.route]) :
                              c.seen[key] =
                                 << QueryUnescape(
                                      ServedSegments[LastPosition(routes[c.route], key)]).value,
                                    TRUE >>
                        /\ \A key \in LookupKeys :
                              /\ c.seen[key][2] <=> key \in ParamNames(routes[c.route])
                              /\ (key \in DOMAIN out.ctx.vals
                                     /\ key \notin ParamNames(routes[c.route]))
                                    => c.seen[key] = << <<>>, FALSE >>
                   ELSE \A key \in LookupKeys : c.seen[key] = Var(ServedRequest, key)

\* C30's case: the request /x/a arrives with k bound to "old" and is
\* dispatched to /:j/a; the handler finds j = "x" and does not find k.
C30_Witness ==
    /\ Served
    /\ out.ctx = WithVals(OuterVals)
    /\ out.path = <<"/", "x", "/", "a">>
    /\ Len(out.calls) = 1
    /\ out.calls[1].route > 0
    /\ routes[out.calls[1].route].segments = << <<":", "j">>, <<"a">> >>
    /\ out.calls[1].seen[<<"j">>] = << <<"x">>, TRUE >>
    /\ out.calls[1].seen[<<"k">>] = << <<>>, FALSE >>

\* The other half of C30's case: the request /a/b arrives with k bound to
\* "old" and is dispatched to /a/b, whose handler still finds k = "old".
OuterBindingsKept ==
    /\ Served
    /\ out.ctx = WithVals(OuterVals)
    /\ Len(out.calls) = 1
    /\ out.calls[1].route > 0
    /\ ~HasParam(routes[out.calls[1].route])
    /\ out.calls[1].seen[<<"k">>] = << <<"o", "l", "d">>, TRUE >>

\* The bindings of a route for the segments of a request it matches: every
\* parameter name with the decoded text at the last position it stands at.
Bindings(route, segments) ==
    [name \in ParamNames(route) |->
        QueryUnescape(segments[LastPosition(route, name)]).value]

\* The handler invocation that the table, the fallback and the request
\* determine: the first route that matches, given the request with that
\* route's bindings, or the fallback with the request itself.
Determined(rs, nf, req) ==
    LET segments == RequestSegments(req.path)
        k == FirstMatch(rs, req.method, segments)
    IN  IF k = 0 THEN Fallback(nf, req).calls
        ELSE <<Invocation(rs[k].handler, k,
                          IF HasParam(rs[k])
                          THEN [req EXCEPT !.ctx = WithVals(Bindings(rs[k], segments))]
                          ELSE req)>>

\* C28: whatever other dispatches run before, between or at the same time,
\* the handler a dispatch invokes and the bindings it gives it are those
\* that the route table and the request's method and path determine, so two
\* dispatches of one method and path get the same handler and bindings.
C28_NoCrossRequestState ==
    /\ \A p \in Procs :
          pc[p] = "done" => obs[p] = Determined(routes, NotFoundHandler, rq[p])
    /\ \A p, q \in Procs :
          (pc[p] = "done" /\ pc[q] = "done"
              /\ rq[p].method = rq[q].method /\ rq[p].path = rq[q].path)
            => /\ Len(obs[p]) = Len(obs[q])
               /\ \A n \in 1..Len(obs[p]) :
                     /\ obs[p][n].handler = obs[q][n].handler
                     /\ obs[p][n].req.ctx = obs[q][n].req.ctx

\* C28's case: two dispatches on one table that have both ended, one of
\* /a and one of /b, both on the route /:k, each with its own binding.
C28_Witness ==
    \E p, q \in Procs :
        /\ p # q
        /\ pc[p] = "done"
        /\ pc[q] = "done"
        /\ rq[p].path = <<"/", "a">>
        /\ rq[q].path = <<"/", "b">>
        /\ Len(obs[p]) = 1
        /\ Len(obs[q]) = 1
        /\ obs[p][1].route > 0
        /\ obs[q][1].route = obs[p][1].route
        /\ obs[p][1].req.ctx = WithVals([n \in {<<"k">>} |-> <<"a">>])
        /\ obs[q][1].req.ctx = WithVals([n \in {<<"k">>} |-> <<"b">>])

\* C29: every route of the table has at least one segment; the paths "/"
\* and "" have none; and a dispatch of either path matches no route, does
\* not panic, and invokes the fallback with the request as it came.
C29_RootGoesToFallback ==
    /\ \A k \in 1..Len(routes) : Len(routes[k].segments) >= 1
    /\ RequestSegments(<<"/">>) = <<>>
    /\ RequestSegments(<<>>) = <<>>
    /\ (Served /\ out.path \in {<<>>, <<"/">>}) =>
          /\ ~out.panic
          /\ \A k \in 1..Len(routes) : ~Matches(routes[k], out.method, ServedSegments)
          /\ out.calls = Fallback(NotFoundHandler, ServedRequest).calls
          /\ out.calls[1].route = 0

\* C29's case: the request "/" on a table of two routes of its method, one
\* of them a parameter route, dispatched to the fallback.
C29_Witness ==
    /\ Served
    /\ out.path = <<"/">>
    /\ Len(routes) = 2
    /\ \A k \in 1..Len(routes) : routes[k].method = out.method
    /\ \E k \in 1..Len(routes) : HasParam(routes[k])
    /\ Len(out.calls) = 1
    /\ out.calls[1].route = 0

-----------------------------------------------------------------------------
(* Where the panics come from, and what holds of the dispatches that do    *)
(* not panic.                                                              *)

\* A dispatch panics only when the table holds a route with an empty
\* segment.
PanicNeedsEmptySegment ==
    (Served /\ out.panic) =>
        \E k \in 1..Len(routes) : \E i \in 1..Len(routes[k].segments) :
            Len(routes[k].segments[i]) = 0

\* A registration panics only for the path "/".
RegisterPanicsOnlyOnSlash ==
    (out.op = "HandleFunc" /\ out.panic) => out.path = <<"/">>

\* A dispatch that does not panic invokes the first-registered route that
\* matches, or else exactly one fallback: the configured handler with the
\* original request, or pageNotFound with its 404 response.
DispatchUnlessPanic ==
    (Served /\ ~out.panic) =>
        /\ C1_FirstRegisteredWins
        /\ C5_ExactlyOneHandler
        /\ C6_ConfiguredFallback
        /\ C7_DefaultNotFound

=============================================================================
